---- MODULE Spec2Model ----
(***************************************************************************)
(* Model of the Christmas-tree scene: the App control state (mix target,   *)
(* pointer input, uploaded images), the per-frame blend smoothing of the   *)
(* ornament populations, the spiral light strip and the photo frames, and  *)
(* the camera / rotation physics of SceneController.                       *)
(*                                                                         *)
(* JavaScript numbers are modelled in fixed point: the integer n stands    *)
(* for n / Unit, products are rounded to the nearest integer.  Times       *)
(* (frame delta) are in the same unit, so 0.1 s is Unit \div 10.           *)
(***************************************************************************)
EXTENDS Integers, Sequences, FiniteSets, TLC

VARIABLES
    targetMix,        \* App: useState(1), 1 = formed, 0 = chaos
    inputRef,         \* App: useRef({x: 0, y: 0}), the raw pointer input
    gestureDetected,  \* App: useState(false)
    debugMode,        \* App: useState(false)
    userImages,       \* App: useState<string[]>([]), object URLs
    data,             \* Ornaments: useMemo data, one layout per kind
    currentMixRef,    \* Ornaments: useRef(1), one per instanced kind
    instanceMatrix,   \* Ornaments: the transforms written with setMatrixAt
    photos,           \* Ornaments PHOTO branch: the mounted children
    spiral,           \* SpiralLights: layout, currentMixRef and transforms
    controller,       \* SceneController: currentInput, velocity, lastX
    camera,           \* the camera position
    rotationY,        \* groupRef.current.rotation.y
    rng,              \* the state of the generator behind Math.random
    crashed,          \* an error thrown while rendering reached the root
    frame,            \* number of frames rendered so far
    delta             \* the delta of the last frame rendered

vars == << targetMix, inputRef, gestureDetected, debugMode, userImages, data,
           currentMixRef, instanceMatrix, photos, spiral, controller, camera,
           rotationY, rng, crashed, frame, delta >>

appVars == << targetMix, inputRef, gestureDetected, debugMode, userImages >>
sceneVars == << currentMixRef, instanceMatrix, spiral, controller, camera,
                rotationY, frame, delta >>

-----------------------------------------------------------------------------
(* Fixed-point arithmetic *)

Unit == 5 * 1000

Abs(a) == IF a < 0 THEN -a ELSE a
Min(a, b) == IF a < b THEN a ELSE b
Max(a, b) == IF a > b THEN a ELSE b

\* a / b rounded to the nearest integer (b > 0 and even), halves rounded up
RoundDiv(a, b) == (a + b \div 2) \div b

\* product of two fixed-point numbers
Mul(a, b) == RoundDiv(a * b, Unit)

\* THREE.MathUtils.lerp(x, y, t) = (1 - t) * x + t * y
MathUtilsLerp(x, y, t) == RoundDiv((Unit - t) * x + t * y, Unit)

\* utils/math lerp, the smoothing primitive: the factor is capped at 1
lerp(a, b, t) == a + Mul(b - a, Min(t, Unit))

\* the end points taken in the wrong order
lerpVectorsSwapped(v1, v2, alpha) ==
    [k \in 1..3 |-> v2[k] + Mul(v1[k] - v2[k], alpha)]
\* THREE.Vector3.lerpVectors(v1, v2, alpha): v1 + (v2 - v1) * alpha
lerpVectors(v1, v2, alpha) ==
    [k \in 1..3 |-> v1[k] + Mul(v2[k] - v1[k], alpha)]

\* THREE.Vector3.lerp(v, alpha): this += (v - this) * alpha
Vector3Lerp(this, v, alpha) ==
    [k \in 1..3 |-> this[k] + Mul(v[k] - this[k], alpha)]

\* Vector3.multiplyScalar
multiplyScalar(v, s) == [k \in 1..3 |-> Mul(v[k], s)]

-----------------------------------------------------------------------------
(* Bounds of the model *)

\* objects per instanced population (the scene uses 60, 30, 40, 50 and 40)
InstanceCount == 2
\* lights of the spiral strip (the scene uses 420)
SpiralCount == 2
\* frames rendered in the full scene specification
MaxFrames == 1
\* frames rendered by the frame-loop specification
FrameBudget == 2
\* frames of one settling window of the convergence specification
ConvTicks == 150
\* most files offered by one upload in the upload specification
MaxOffered == 32
\* frames between two changes of the pointer input in the momentum specification
MomentumWindow == 40

-----------------------------------------------------------------------------
(* Layout generation *)

InstancedKinds == {"BALL", "BOX", "STAR", "CRYSTAL", "CANDY"}
Kinds == InstancedKinds \cup {"PHOTO"}
\* the outcomes of the random generator that are told apart
Seeds == {0, 1}

\* Math.random(): the k-th draw for object i, a value in [0, 1)
Random(seed, i, k) == ((seed * 3 + i * 5 + k * 7 + seed * i * k) % 4) * (Unit \div 4)

Pi == (31416 * Unit) \div 10000

\* cos and sin of Random * 2 * PI for the four values Random takes
Cos(r) == CASE r = 0 -> Unit [] r = 2 * (Unit \div 4) -> -Unit [] OTHER -> 0
Sin(r) == CASE r = Unit \div 4 -> Unit [] r = 3 * (Unit \div 4) -> -Unit [] OTHER -> 0

\* generateFoliageData(count, height, radius).target: points on the cone surface
generateFoliageData(count, height, radius, seed) ==
    [n \in 1..count |->
        LET h == Random(seed, n - 1, 10)
            a == Random(seed, n - 1, 11)
            r == Mul(radius * Unit, Unit - h)
        IN << Mul(r, Cos(a)), Mul(height * Unit, h) - (height * Unit) \div 2, Mul(r, Sin(a)) >>]

\* randomVector3(r): a random point inside the sphere of radius r
randomVector3(r, seed, i) ==
    LET d == Mul(r * Unit, Random(seed, i, 12))
        a == Random(seed, i, 13)
    IN << Mul(d, Cos(a)), 0, Mul(d, Sin(a)) >>

\* generateSpiralData(count, height, radius, turns): a helix and a chaos cloud
\* (radius is given in tenths: 75 is 7.5)
generateSpiralData(count, height, radius, turns, seed) ==
    [target |-> [n \in 1..count |->
                    LET h == ((n - 1) * Unit) \div count
                        a == (((n - 1) * turns) % 4) * (Unit \div 4)
                        r == Mul((radius * Unit) \div 10, Unit - h)
                    IN << Mul(r, Cos(a)), Mul(height * Unit, h) - (height * Unit) \div 2,
                          Mul(r, Sin(a)) >>],
     chaos  |-> [n \in 1..count |-> randomVector3(25, seed, n - 1)]]

\* the scale prop each population is created with (default 1)
ScaleProp(type) ==
    CASE type = "BALL"    -> (5 * Unit) \div 10
      [] type = "BOX"     -> (6 * Unit) \div 10
      [] type = "STAR"    -> (5 * Unit) \div 10
      [] type = "CRYSTAL" -> (3 * Unit) \div 10
      [] type = "CANDY"   -> (4 * Unit) \div 10
      [] OTHER            -> Unit

\* the length of the colors prop (PHOTO has none)
ColorCount(type) ==
    CASE type = "BALL" -> 7 [] type = "BOX" -> 5 [] type = "PHOTO" -> 0 [] OTHER -> 2

\* one iteration of the loop of the data useMemo
OrnamentData(type, target, seed, i) ==
    LET pushOut == IF type = "STAR" THEN (115 * Unit) \div 100 ELSE (108 * Unit) \div 100
        tPos == multiplyScalar(target, pushOut)
        theta == Random(seed, i, 1)
        radius == 14 * Unit + Mul(Random(seed, i, 2), 4 * Unit)
        yHeight == Mul(Random(seed, i, 3) - Unit \div 2, 20 * Unit)
        cPos == IF type = "PHOTO"
                THEN << Mul(radius, Cos(theta)), yHeight, Mul(radius, Sin(theta)) >>
                ELSE randomVector3(25, seed, i)
        chaosTilt == IF type = "PHOTO"
                     THEN Mul(Random(seed, i, 4) - Unit \div 2, Unit \div 2)
                     ELSE 0
        color == IF ColorCount(type) > 0
                 THEN 1 + (Random(seed, i, 5) * ColorCount(type)) \div Unit
                 ELSE 0
        randScale == Mul(Random(seed, i, 6), (4 * Unit) \div 10) + (8 * Unit) \div 10
        baseScaleVec ==
            CASE type = "CANDY" -> << (2 * Unit) \div 10, (15 * Unit) \div 10, (2 * Unit) \div 10 >>
              [] type = "STAR"  -> << (12 * Unit) \div 10, (12 * Unit) \div 10, (12 * Unit) \div 10 >>
              [] OTHER          -> << Unit, Unit, Unit >>
        targetScale == multiplyScalar(baseScaleVec, Mul(ScaleProp(type), randScale))
        photoScale == (25 * Unit) \div 10 + Random(seed, i, 7)
        chaosScale == IF type = "PHOTO" THEN multiplyScalar(targetScale, photoScale)
                      ELSE targetScale
    IN [chaosPos |-> cPos, targetPos |-> tPos,
        rotation |-> << Mul(Random(seed, i, 8), Pi), Mul(Random(seed, i, 9), Pi), 0 >>,
        color |-> color, targetScale |-> targetScale, chaosScale |-> chaosScale,
        chaosTilt |-> chaosTilt]

\* the body of the data useMemo of Ornaments: count items
GenerateData(type, count, seed) ==
    LET target == generateFoliageData(count, 18, 7, seed)
    IN [n \in 1..count |-> OrnamentData(type, target[n], seed, n - 1)]

\* no memo: the layout is generated again by every render
UseMemoDataEveryRender(old, type, count, seed) == GenerateData(type, count, seed)
\* useMemo(..., [count, type, colors, scale]): of the dependencies only count
\* can change, so a render generates the layout again only when it differs
UseMemoData(old, type, count, seed) ==
    IF count = Len(old) THEN old ELSE GenerateData(type, count, seed)


-----------------------------------------------------------------------------
(* Program constants *)

\* the cap of safeDelta, 0.1 s
SafeDeltaCap == Unit \div 10
\* velocity gain 0.5 and decay 0.95, base spin 0.002
VelocityGain == Unit \div 2
\* a decay above 1
VelocityGrowth == (105 * Unit) \div 100
VelocityDecay == (95 * Unit) \div 100
BaseSpin == (2 * Unit) \div 1000
\* the position forwarded without amplification
GestureGainNone == Unit
\* horizontal amplification of the gesture position, 1.2
GestureGainX == (12 * Unit) \div 10
\* the objects turning outward from half of the way on
OutwardThresholdHalf == Unit \div 2
\* the blend above which STAR and PHOTO objects turn outward, 0.8
OutwardThreshold == (8 * Unit) \div 10
\* the slice taken one too long
MaxImagesOneMore == 30 + 1
\* files kept by one upload, photo frames shown without images, fallback designs
MaxImages == 30
DefaultPhotoCount == 10
FallbackTextureCount == 4

-----------------------------------------------------------------------------
(* Per-frame updates, as pure functions of the state they read *)

\* the rate forgotten: speed = delta
OrnamentSpeedNoRate(d) == d
\* Ornaments useFrame: speed = 2.0 * delta
OrnamentSpeed(d) == 2 * d
\* the photo frames smoothed at the rate 1
PhotoSpeedNoRate(d) == d
\* PhotoFrameMesh useFrame: speed = 2.0 * delta
PhotoSpeed(d) == 2 * d
\* SpiralLights useFrame: speed = 2.0 * delta
SpiralSpeed(d) == 2 * d

\* the cap forgotten: the raw delta is used
SafeDeltaUnclamped(d) == d
\* SceneController useFrame: safeDelta = Math.min(delta, 0.1)
SafeDelta(d) == Min(d, SafeDeltaCap)
\* inputSmoothing = 3.0 * safeDelta
InputSmoothing(d) == 3 * SafeDelta(d)
\* the camera factor, 2.0 * safeDelta
CameraSmoothing(d) == 2 * SafeDelta(d)

\* the transform written for one instanced object at blend t
InstanceTransform(type, item, t) ==
    LET currentPos == lerpVectors(item.chaosPos, item.targetPos, t)
    IN [position |-> currentPos,
        orientation |-> IF type = "STAR" /\ t > OutwardThreshold
                        THEN [mode |-> "radial", value |-> << 0, currentPos[2], 0 >>]
                        ELSE [mode |-> "baseline", value |-> item.rotation],
        scale |-> lerpVectors(item.chaosScale, item.targetScale, t)]

\* the transform the layout effect writes when the population is created
InitialTransform(item) ==
    [position |-> item.targetPos,
     orientation |-> [mode |-> "baseline", value |-> item.rotation],
     scale |-> item.targetScale]

\* the blend smoothed with THREE.MathUtils.lerp, whose factor is not capped
OrnamentsBlendUncapped(cur, mixFactor, d) == MathUtilsLerp(cur, mixFactor, OrnamentSpeed(d))
\* Ornaments useFrame: the new blend of an instanced population
OrnamentsBlend(cur, mixFactor, d) == lerp(cur, mixFactor, OrnamentSpeed(d))

\* PhotoFrameMesh useFrame for one mounted photo frame
PhotoFrame(p, item, mixFactor, d) ==
    LET speed == PhotoSpeed(d)
        t == lerp(p.mix, mixFactor, speed)
    IN [p EXCEPT
          !.mix = t,
          !.position = lerpVectors(item.chaosPos, item.targetPos, t),
          !.scale = lerpVectors(item.chaosScale, item.targetScale, t),
          !.facing = IF t > OutwardThreshold THEN "outward" ELSE "billboard",
          !.tilt = IF t > OutwardThreshold
                   THEN lerp(p.tilt, 0, speed)
                   ELSE lerp(p.tilt, item.chaosTilt, speed)]

\* SpiralLights useFrame: blend and the positions written
SpiralFrame(sp, mixFactor, d) ==
    LET t == lerp(sp.mix, mixFactor, SpiralSpeed(d))
    IN [sp EXCEPT
          !.mix = t,
          !.position = [n \in 1..Len(sp.target) |->
                          [k \in 1..3 |-> lerp(sp.chaos[n][k], sp.target[n][k], t)]]]

\* SceneController useFrame, step 1: the smoothed input
SmoothInput(cur, target, d) ==
    [x |-> MathUtilsLerp(cur.x, target.x, InputSmoothing(d)),
     y |-> MathUtilsLerp(cur.y, target.y, InputSmoothing(d))]

\* the camera target with the earlier horizontal range of 6
CameraTargetWide(cur) == << 6 * cur.x, 2 * cur.y, 32 * Unit + Abs(cur.x) * 2 >>
\* step 2: the camera target of a smoothed input
CameraTarget(cur) == << 4 * cur.x, 2 * cur.y, 32 * Unit + Abs(cur.x) * 2 >>

\* step 3: the velocity after one frame whose smoothed input moved by deltaX
NextVelocity(velocity, deltaX) == Mul(velocity + Mul(deltaX, VelocityGain), VelocityDecay)

\* SceneController useFrame as a whole
ControllerFrame(c, target, d) ==
    LET cur == SmoothInput(c.currentInput, target, d)
        deltaX == cur.x - c.lastX
    IN [currentInput |-> cur, lastX |-> cur.x,
        velocity |-> NextVelocity(c.velocity, deltaX)]


-----------------------------------------------------------------------------
(* The PHOTO children *)

NoUrl == [gen |-> 0, file |-> 0]

\* SceneContent: photoCount
PhotoCount(images) == IF Len(images) > 0 THEN Len(images) ELSE DefaultPhotoCount

\* the count prop of each population
Count(type, images) == IF type = "PHOTO" THEN PhotoCount(images) ELSE InstanceCount

\* a PhotoFrameMesh that has just been mounted: useRef(1), no tilt, not drawn yet
NewFrame(url, texture) ==
    [url |-> url, status |-> "ready", mounted |-> TRUE, texture |-> texture,
     mix |-> Unit, position |-> << 0, 0, 0 >>, scale |-> << Unit, Unit, Unit >>,
     facing |-> "none", tilt |-> 0]

\* the Suspense fallback of SuspensePhotoOrnament: a plain box at the target
FallbackBox(p, item) ==
    [p EXCEPT !.status = "loading", !.texture = << "box", 0 >>,
              !.position = item.targetPos, !.scale = item.targetScale,
              !.facing = "none"]

\* the child rendered for object i (0-based) of the PHOTO branch, given the
\* child that had key i before (or NoChild)
NoChild == [url |-> NoUrl, status |-> "none"]

PhotoChild(i, images, item, prev) ==
    LET imgSrc == IF Len(images) > 0 /\ i < Len(images) THEN images[i + 1] ELSE NoUrl
        fallback == i % FallbackTextureCount
    IN IF imgSrc # NoUrl
       THEN \* SuspensePhotoOrnament: the loader suspends on a new url
            IF prev.status # "none" /\ prev.url = imgSrc THEN prev
            ELSE IF prev.status # "none" /\ prev.url # NoUrl
                 THEN FallbackBox([prev EXCEPT !.url = imgSrc], item)
                 ELSE FallbackBox([NewFrame(imgSrc, << "box", 0 >>) EXCEPT !.mounted = FALSE], item)
       ELSE \* PhotoFrameMesh with a fallback texture
            IF prev.status # "none" /\ prev.url = NoUrl
            THEN [prev EXCEPT !.texture = << "fallback", fallback >>]
            ELSE NewFrame(NoUrl, << "fallback", fallback >>)

RenderPhotos(images, items, prev) ==
    [n \in 1..Len(items) |->
        PhotoChild(n - 1, images, items[n], IF n <= Len(prev) THEN prev[n] ELSE NoChild)]

\* the frames whose useFrame callback runs
Ticking(p) == p.status = "ready"

\* a render of the scene after a state change of App: each Ornaments runs its
\* useMemo, the PHOTO branch maps its data to children; the generator moves on
\* when a layout was generated
Render(images) ==
    /\ data' = [k \in Kinds |-> UseMemoData(data[k], k, Count(k, images), rng)]
    /\ rng' = IF data' = data THEN rng ELSE (rng + 1) % Cardinality(Seeds)
    /\ photos' = RenderPhotos(images, data'["PHOTO"], photos)

-----------------------------------------------------------------------------
(* Initial state *)

Init ==
    /\ targetMix = Unit
    /\ inputRef = [x |-> 0, y |-> 0]
    /\ gestureDetected = FALSE
    /\ debugMode = FALSE
    /\ userImages = << >>
    /\ \E s \in Seeds :
         /\ data = [k \in Kinds |-> GenerateData(k, Count(k, << >>), s)]
         /\ LET sp == generateSpiralData(SpiralCount, 19, 75, 9, s)
            IN spiral = [target |-> sp.target, chaos |-> sp.chaos, mix |-> Unit,
                         position |-> sp.target]
         /\ rng = (s + 1) % Cardinality(Seeds)
    /\ currentMixRef = [k \in InstancedKinds |-> Unit]
    /\ instanceMatrix = [k \in InstancedKinds |->
                           [n \in 1..Len(data[k]) |-> InitialTransform(data[k][n])]]
    /\ photos = RenderPhotos(<< >>, data["PHOTO"], << >>)
    /\ controller = [currentInput |-> [x |-> 0, y |-> 0], velocity |-> 0, lastX |-> 0]
    /\ camera = << 0, 0, 32 * Unit >>
    /\ rotationY = 0
    /\ crashed = FALSE
    /\ frame = 0
    /\ delta = 0

-----------------------------------------------------------------------------
(* App handlers *)

\* handleGesture(data)
HandleGesture(g) ==
    /\ ~crashed
    /\ gestureDetected' = g.isDetected
    /\ IF g.isDetected
       THEN /\ targetMix' = (IF g.isOpen THEN 0 ELSE Unit)
            /\ inputRef' = [x |-> Mul(g.position.x, GestureGainX), y |-> g.position.y]
       ELSE UNCHANGED << targetMix, inputRef >>
    /\ Render(userImages)
    /\ UNCHANGED << debugMode, userImages, crashed >>
    /\ UNCHANGED sceneVars

\* a mouse move gated by the debug mode alone
HandleMouseMoveUngated(fx, fy) ==
    /\ ~crashed
    /\ IF debugMode
       THEN inputRef' = [x |-> fx * 2 - Unit, y |-> -fy * 2 + Unit]
       ELSE UNCHANGED inputRef
    /\ UNCHANGED << targetMix, gestureDetected, debugMode, userImages, data, photos, rng, crashed >>
    /\ UNCHANGED sceneVars

\* handleMouseMove(e); fx and fy are clientX / innerWidth and clientY / innerHeight
HandleMouseMove(fx, fy) ==
    /\ ~crashed
    /\ IF ~gestureDetected /\ debugMode
       THEN inputRef' = [x |-> fx * 2 - Unit, y |-> -fy * 2 + Unit]
       ELSE UNCHANGED inputRef
    /\ UNCHANGED << targetMix, gestureDetected, debugMode, userImages, data, photos, rng, crashed >>
    /\ UNCHANGED sceneVars

\* a toggle that leaves the formed state only halfway
ToggleStateHalfway ==
    /\ ~crashed
    /\ targetMix' = (IF targetMix = Unit THEN Unit \div 2 ELSE Unit)
    /\ Render(userImages)
    /\ UNCHANGED << inputRef, gestureDetected, debugMode, userImages, crashed >>
    /\ UNCHANGED sceneVars

\* toggleState
ToggleState ==
    /\ ~crashed
    /\ targetMix' = (IF targetMix = Unit THEN 0 ELSE Unit)
    /\ Render(userImages)
    /\ UNCHANGED << inputRef, gestureDetected, debugMode, userImages, crashed >>
    /\ UNCHANGED sceneVars

\* the Enable / Disable Mouse button, rendered while no gesture is detected
ToggleDebugMode ==
    /\ ~crashed
    /\ ~gestureDetected
    /\ debugMode' = ~debugMode
    /\ Render(userImages)
    /\ UNCHANGED << targetMix, inputRef, gestureDetected, userImages, crashed >>
    /\ UNCHANGED sceneVars

\* the object URLs created for the files kept by an upload
ObjectUrls(files, images) ==
    LET gen == IF Len(images) > 0 /\ images[1].gen = 1 THEN 2 ELSE 1
    IN [n \in 1..Min(files, MaxImages) |-> [gen |-> gen, file |-> n]]

\* handleFileChange(e) with e.target.files holding `files` files, and the
\* render that follows
HandleFileChange(files) ==
    /\ ~crashed
    /\ IF files > 0
       THEN /\ userImages' = ObjectUrls(files, userImages)
            /\ Render(userImages')
       ELSE UNCHANGED << userImages, data, photos, rng >>
    /\ UNCHANGED << targetMix, inputRef, gestureDetected, debugMode, crashed >>
    /\ UNCHANGED sceneVars

\* the TextureLoader of photo n resolves: UserPhotoOrnament renders its frame
LoadDone(n) ==
    /\ ~crashed
    /\ n \in 1..Len(photos)
    /\ photos[n].status = "loading"
    /\ photos' = [photos EXCEPT ![n] =
                    IF photos[n].mounted
                    THEN [photos[n] EXCEPT !.status = "ready",
                                           !.texture = << "image", photos[n].url.file >>]
                    ELSE NewFrame(photos[n].url, << "image", photos[n].url.file >>)]
    /\ UNCHANGED appVars
    /\ UNCHANGED << data, rng, crashed >>
    /\ UNCHANGED sceneVars

\* the TextureLoader of photo n rejects: useLoader throws while rendering and
\* no error boundary catches it
LoadFail(n) ==
    /\ ~crashed
    /\ n \in 1..Len(photos)
    /\ photos[n].status = "loading"
    /\ crashed' = TRUE
    /\ UNCHANGED appVars
    /\ UNCHANGED << data, photos, rng >>
    /\ UNCHANGED sceneVars

-----------------------------------------------------------------------------
(* One rendered frame: every useFrame callback runs with the same delta *)

Tick(d) ==
    /\ ~crashed
    /\ currentMixRef' = [k \in InstancedKinds |-> OrnamentsBlend(currentMixRef[k], targetMix, d)]
    /\ instanceMatrix' = [k \in InstancedKinds |->
                            [n \in 1..Len(data[k]) |->
                                InstanceTransform(k, data[k][n], currentMixRef'[k])]]
    /\ photos' = [n \in 1..Len(photos) |->
                    IF Ticking(photos[n])
                    THEN PhotoFrame(photos[n], data["PHOTO"][n], targetMix, d)
                    ELSE photos[n]]
    /\ spiral' = SpiralFrame(spiral, targetMix, d)
    /\ controller' = ControllerFrame(controller, inputRef, d)
    /\ camera' = Vector3Lerp(camera, CameraTarget(controller'.currentInput), CameraSmoothing(d))
    /\ rotationY' = rotationY + BaseSpin + controller'.velocity
    /\ frame' = frame + 1
    /\ delta' = d
    /\ UNCHANGED appVars
    /\ UNCHANGED << data, rng, crashed >>

-----------------------------------------------------------------------------
(* Inputs *)

\* frame deltas: none, 1/60 s, 0.2 s (above the cap), 0.6 s (a stalled frame)
Deltas == {0, Unit \div 60, Unit \div 5, (6 * Unit) \div 10}

\* hand positions reported by the gesture controller
HandPositions == {[x |-> Unit, y |-> Unit \div 2], [x |-> -(Unit \div 2), y |-> -Unit]}
Gestures == [isDetected : BOOLEAN, isOpen : BOOLEAN, position : HandPositions]

\* mouse positions as fractions of the window
MouseFractions == {<< 0, Unit >>, << Unit, Unit \div 4 >>}

-----------------------------------------------------------------------------
(* The full scene: every handler, a short run of frames *)

SceneDeltas == {Unit \div 60, (6 * Unit) \div 10}
SceneGestures == {g \in Gestures : g.position.x = Unit}
SceneMouse == {<< 0, Unit >>}
SceneFiles == {0, 1}

Next ==
    \/ \E d \in SceneDeltas : frame < MaxFrames /\ Tick(d)
    \/ \E g \in SceneGestures : HandleGesture(g)
    \/ \E m \in SceneMouse : HandleMouseMove(m[1], m[2])
    \/ ToggleState
    \/ ToggleDebugMode
    \/ \E files \in SceneFiles : HandleFileChange(files)
    \/ \E n \in DOMAIN photos : LoadDone(n)
    \/ \E n \in DOMAIN photos : LoadFail(n)

Spec == Init /\ [][Next]_vars

-----------------------------------------------------------------------------
(* The frame loop under a changing control signal: no uploads *)

NextFrames ==
    \/ \E d \in Deltas : frame < FrameBudget /\ Tick(d)
    \/ \E g \in Gestures : HandleGesture(g)
    \/ ToggleState

SpecFrames == Init /\ [][NextFrames]_vars

-----------------------------------------------------------------------------
(* Settling under a fixed mix target and a fixed frame delta: the target    *)
(* may only change between windows of ConvTicks frames, and every frame of  *)
(* a behaviour has the delta of its first frame.                            *)

NextConv ==
    \/ \E d \in Deltas :
         /\ frame < 2 * ConvTicks
         /\ frame = 0 \/ d = delta
         /\ Tick(d)
    \/ frame % ConvTicks = 0 /\ ToggleState

SpecConv == Init /\ [][NextConv]_vars

-----------------------------------------------------------------------------
(* Blend values *)

\* every blend value of the scene: the populations, the strip, each photo frame
Blends ==
    {currentMixRef[k] : k \in InstancedKinds} \cup {spiral.mix}
        \cup {photos[n].mix : n \in {m \in DOMAIN photos : Ticking(photos[m])}}

\* 0.01
Epsilon == Unit \div 100

Settled == \A b \in Blends : Abs(b - targetMix) <= Epsilon

\* the distance of every blend to the mix target does not grow in a frame
Approaches ==
    /\ \A k \in InstancedKinds :
         Abs(currentMixRef'[k] - targetMix) <= Abs(currentMixRef[k] - targetMix)
    /\ Abs(spiral'.mix - targetMix) <= Abs(spiral.mix - targetMix)
    /\ \A n \in DOMAIN photos :
         Ticking(photos[n]) => Abs(photos'[n].mix - targetMix) <= Abs(photos[n].mix - targetMix)

\* C1 as stated: with the mix target fixed for a window of ConvTicks frames
\* and any fixed frame delta, every blend approaches the target monotonically
\* and is within 0.01 of it by the end of the window.
ConvergenceAnyDelta ==
    /\ [](frame % ConvTicks = ConvTicks - 1 => Settled)
    /\ [][frame' = frame + 1 => Approaches]_vars

\* C1 amended: the same for any fixed frame delta greater than zero.
Convergence ==
    /\ []((frame % ConvTicks = ConvTicks - 1 /\ delta > 0) => Settled)
    /\ [][frame' = frame + 1 => Approaches]_vars

\* a window run at 1/60 s per frame towards chaos has ended settled

ConvergenceWitness ==
    /\ frame = ConvTicks - 1
    /\ delta = Unit \div 60
    /\ targetMix = 0
    /\ Settled

-----------------------------------------------------------------------------
(* One smoothing step *)

\* the contract of the smoothing primitive: current + (target - current) * min(rate * dt, 1)
Smooth(current, target, rate, dt) == current + Mul(target - current, Min(rate * dt, Unit))

Between(v, a, b) == Min(a, b) <= v /\ v <= Max(a, b)

\* every smoothed quantity moved as Smooth says in this frame, the delta seen
\* by the blends being db and the delta seen by the input and the camera dc
SmoothedBy(db, dc) ==
    LET goal == CameraTarget(controller'.currentInput)
    IN /\ \A k \in InstancedKinds :
            /\ currentMixRef'[k] = Smooth(currentMixRef[k], targetMix, 2, db)
            /\ Between(currentMixRef'[k], currentMixRef[k], targetMix)
       /\ \A n \in DOMAIN photos :
            Ticking(photos[n]) =>
               /\ photos'[n].mix = Smooth(photos[n].mix, targetMix, 2, db)
               /\ Between(photos'[n].mix, photos[n].mix, targetMix)
       /\ spiral'.mix = Smooth(spiral.mix, targetMix, 2, db)
       /\ controller'.currentInput.x = Smooth(controller.currentInput.x, inputRef.x, 3, dc)
       /\ controller'.currentInput.y = Smooth(controller.currentInput.y, inputRef.y, 3, dc)
       /\ Between(controller'.currentInput.x, controller.currentInput.x, inputRef.x)
       /\ Between(controller'.currentInput.y, controller.currentInput.y, inputRef.y)
       /\ \A c \in 1..3 :
            /\ camera'[c] = Smooth(camera[c], goal[c], 2, dc)
            /\ Between(camera'[c], camera[c], goal[c])

\* C2 as stated: in every frame, whatever its delta dt, each smoothed quantity
\* becomes current + (target - current) * min(rate * dt, 1) and so lies between
\* its old value and its target.
NoOvershootRawDelta == [][frame' = frame + 1 => SmoothedBy(delta', delta')]_vars

\* C2 amended: the same with dt capped at 0.1 s for the pointer input and the
\* camera position (the blends use the frame delta itself).
NoOvershoot == [][frame' = frame + 1 => SmoothedBy(delta', Min(delta', Unit \div 10))]_vars

\* a stalled frame (0.6 s) has brought the blend from 1 onto the target 0 and the
\* smoothed input 0.3 of the way to x = 1.2
NoOvershootWitness ==
    /\ frame = 1
    /\ delta = (6 * Unit) \div 10
    /\ targetMix = 0
    /\ currentMixRef["BALL"] = 0
    /\ inputRef.x = (12 * Unit) \div 10
    /\ controller.currentInput.x = (36 * Unit) \div 100

\* C3: a frame with any delta above 0.1 s leaves every smoothed value (blends,
\* photo tilt, pointer input, camera) exactly where a frame with delta = 0.1 s
\* would have left it.
ClampIdempotence ==
    [][(frame' = frame + 1 /\ delta' > Unit \div 10) =>
          /\ currentMixRef' = [k \in InstancedKinds |->
                                 OrnamentsBlend(currentMixRef[k], targetMix, Unit \div 10)]
          /\ photos' = [n \in DOMAIN photos |->
                          IF Ticking(photos[n])
                          THEN PhotoFrame(photos[n], data["PHOTO"][n], targetMix, Unit \div 10)
                          ELSE photos[n]]
          /\ spiral' = SpiralFrame(spiral, targetMix, Unit \div 10)
          /\ controller' = ControllerFrame(controller, inputRef, Unit \div 10)
          /\ camera' = Vector3Lerp(camera, CameraTarget(controller'.currentInput),
                                   CameraSmoothing(Unit \div 10))]_vars

\* C4: every blend value (each population, the spiral strip, each photo
\* frame) is in [0, 1] after any frames and any changes of the mix target.
BlendRange ==
    /\ \A k \in InstancedKinds : 0 <= currentMixRef[k] /\ currentMixRef[k] <= Unit
    /\ 0 <= spiral.mix /\ spiral.mix <= Unit
    /\ \A n \in DOMAIN photos : 0 <= photos[n].mix /\ photos[n].mix <= Unit

\* a stalled frame took every blend to 0, the target went back to 1 and a
\* 1/60 s frame moved every blend strictly inside the range
BlendRangeWitness ==
    /\ frame = 2
    /\ targetMix = Unit
    /\ delta = Unit \div 60
    /\ \A b \in Blends : 0 < b /\ b < Unit \div 10

-----------------------------------------------------------------------------
(* Layouts and interpolation *)

\* C5: while a population keeps its object count (the same population
\* instance), a step of any handler or frame leaves each object's chaosPos,
\* targetPos, chaosScale and targetScale as they were; so do the target and
\* chaos points of the spiral strip.
LayoutImmutable ==
    [][/\ \A k \in Kinds :
            Len(data'[k]) = Len(data[k]) =>
               \A n \in 1..Len(data[k]) :
                  /\ data'[k][n].chaosPos = data[k][n].chaosPos
                  /\ data'[k][n].targetPos = data[k][n].targetPos
                  /\ data'[k][n].chaosScale = data[k][n].chaosScale
                  /\ data'[k][n].targetScale = data[k][n].targetScale
       /\ spiral'.target = spiral.target
       /\ spiral'.chaos = spiral.chaos]_vars

\* after a frame, a gesture and a second upload of one file, the photo is at
\* its chaos position while its layout is still the one generated for it
LayoutImmutableWitness ==
    /\ frame = 1
    /\ gestureDetected
    /\ targetMix = 0
    /\ Len(userImages) = 1 /\ userImages[1].gen = 2
    /\ photos[1].status = "ready" /\ photos[1].facing = "billboard"
    /\ photos[1].position = data["PHOTO"][1].chaosPos
    /\ photos[1].position # data["PHOTO"][1].targetPos
    /\ instanceMatrix["BALL"][1].position # data["BALL"][1].targetPos

\* chaos + (target - chaos) * blend
Interpolate(chaos, target, blend) == [c \in 1..3 |-> chaos[c] + Mul(target[c] - chaos[c], blend)]

\* p is inside the box spanned by a and b
BetweenPoints(p, a, b) == \A c \in 1..3 : Between(p[c], a[c], b[c])

Interpolated(position, chaos, target, blend) ==
    /\ position = Interpolate(chaos, target, blend)
    /\ BetweenPoints(position, chaos, target)
    /\ blend = 0 => position = chaos
    /\ blend = Unit => position = target

-----------------------------------------------------------------------------
(* Gestures *)

\* C9: a gesture event with isDetected sets the mix target to 0 when isOpen and
\* to 1 otherwise and the pointer input to (1.2 * position.x, position.y); an
\* event without isDetected leaves the pointer input and the mix target alone.
GestureMapping ==
    [][\A g \in Gestures :
          HandleGesture(g) =>
             IF g.isDetected
             THEN /\ targetMix' = (IF g.isOpen THEN 0 ELSE Unit)
                  /\ inputRef'.x = (12 * g.position.x) \div 10
                  /\ inputRef'.y = g.position.y
             ELSE /\ inputRef' = inputRef
                  /\ targetMix' = targetMix]_vars

\* an open hand at (1, 0.5) was seen and then lost: the target is chaos and the
\* pointer input is still (1.2, 0.5)
GestureMappingWitness ==
    /\ ~gestureDetected
    /\ targetMix = 0
    /\ inputRef = [x |-> (12 * Unit) \div 10, y |-> Unit \div 2]

-----------------------------------------------------------------------------
(* Uploads: any number of files up to MaxOffered, no frames *)

NextSizing ==
    \/ \E files \in 0..MaxOffered : HandleFileChange(files)
    \/ ToggleState

SpecSizing == Init /\ [][NextSizing]_vars

\* C7: after any uploads the PHOTO population has as many objects as the image
\* list when the list is not empty and 10 when it is; the list never holds
\* more than 30 entries, so the population has between 1 and 30 objects.
PhotoSizing ==
    /\ Len(userImages) <= 30
    /\ Len(data["PHOTO"]) = (IF Len(userImages) > 0 THEN Len(userImages) ELSE 10)
    /\ Len(photos) = Len(data["PHOTO"])
    /\ 1 <= Len(photos) /\ Len(photos) <= 30

\* an upload has filled the list: 30 images, 30 photo objects, the last one
\* showing the 30th file
PhotoSizingWitness ==
    /\ Len(userImages) = 30
    /\ Len(photos) = 30
    /\ photos[30].url.file = 30

-----------------------------------------------------------------------------
(* Momentum: the pointer input changes in steps MomentumWindow frames apart *)
(* and is held in between; every frame of a behaviour has the same delta.   *)

MomentumDeltas == {Unit \div 60, Unit \div 10, (6 * Unit) \div 10}

NextMomentum ==
    \/ \E d \in MomentumDeltas :
         /\ frame < 2 * MomentumWindow
         /\ frame = 0 \/ d = delta
         /\ Tick(d)
    \/ frame % MomentumWindow = 0 /\ \E g \in Gestures : HandleGesture(g)

SpecMomentum == Init /\ [][NextMomentum]_vars

\* the smoothed input has stopped changing: a frame would leave it as it is
InputAtRest ==
    /\ controller.lastX = controller.currentInput.x
    /\ SmoothInput(controller.currentInput, inputRef, delta).x = controller.currentInput.x

\* C8: in a frame in which the smoothed input does not change, the rotation
\* velocity is multiplied by 0.95, so its magnitude does not grow and shrinks
\* while it is above 0.002 (the rounding floor); and the magnitude of the
\* velocity never exceeds 1.2 for pointer inputs with x in [-1.2, 1.2].
MomentumDecay ==
    /\ [](Abs(controller.velocity) <= (12 * Unit) \div 10)
    /\ [][(frame' = frame + 1 /\ controller'.currentInput.x = controller.currentInput.x) =>
             /\ controller'.velocity = RoundDiv(95 * controller.velocity, 100)
             /\ Abs(controller'.velocity) <= Abs(controller.velocity)
             /\ Abs(controller.velocity) > Unit \div 500 =>
                   Abs(controller'.velocity) < Abs(controller.velocity)]_vars

\* the input was stepped to x = 1.2 and held, the smoothed input has come to
\* rest and the velocity it built up has decayed below 0.125
MomentumDecayWitness ==
    /\ inputRef.x = (12 * Unit) \div 10
    /\ delta = Unit \div 10
    /\ frame < MomentumWindow
    /\ InputAtRest
    /\ controller.velocity > Unit \div 500
    /\ controller.velocity < Unit \div 8

-----------------------------------------------------------------------------
(* Photos whose image is absent, loading or failed *)

\* the placeholder of the object with 0-based index i
Placeholder(i) == << "fallback", i % FallbackTextureCount >>

\* C10: a PHOTO object whose image is absent, still loading or failed to load
\* shows the placeholder design i mod 4 of its index i, its frame callback keeps
\* running (it is interpolated by its blend), and no error reaches the root.
AssetFailureNonFatal ==
    /\ ~crashed
    /\ \A n \in DOMAIN photos :
         /\ photos[n].texture[1] # "image" => photos[n].texture = Placeholder(n - 1)
         /\ Ticking(photos[n])

-----------------------------------------------------------------------------
(* Orientation of the instanced ornaments *)

\* ticks at 1/60 s after which a blend smoothed from 0 toward 1 is above 0.8
SwitchTicks == 48

\* every STAR object is drawn pointing outward from the axis through its own
\* position
StarsOutward ==
    \A n \in 1..Len(data["STAR"]) :
        instanceMatrix["STAR"][n].orientation =
            [mode |-> "radial", value |-> << 0, instanceMatrix["STAR"][n].position[2], 0 >>]

\* C11: once a frame has run, an instanced object is drawn radially outward
\* exactly when it is a STAR and the blend of its population is above 0.8, and
\* with its own baseline rotation otherwise; and when the mix target is 1 and
\* SwitchTicks frames of 1/60 s have run since it could last have flipped,
\* every STAR is drawn outward, in that frame and every later one.
StarOrientation ==
    /\ frame > 0 =>
          \A k \in InstancedKinds : \A n \in 1..Len(data[k]) :
              instanceMatrix[k][n].orientation =
                  IF k = "STAR" /\ 10 * currentMixRef[k] > 8 * Unit
                  THEN [mode |-> "radial",
                        value |-> << 0, instanceMatrix[k][n].position[2], 0 >>]
                  ELSE [mode |-> "baseline", value |-> data[k][n].rotation]
    /\ (/\ delta = Unit \div 60
        /\ targetMix = Unit
        /\ frame >= ConvTicks + SwitchTicks
        /\ frame < 2 * ConvTicks) =>
          StarsOutward

\* the mix target went back to 1 after the scene had scattered; frames of
\* 1/60 s have just taken the STAR blend past 0.8 and the stars point outward
StarOrientationWitness ==
    /\ delta = Unit \div 60
    /\ targetMix = Unit
    /\ frame > ConvTicks
    /\ 10 * currentMixRef["STAR"] > 8 * Unit
    /\ 100 * currentMixRef["STAR"] < 82 * Unit
    /\ StarsOutward
    /\ instanceMatrix["BALL"][1].orientation.mode = "baseline"

-----------------------------------------------------------------------------
(* Facing and tilt of the photo frames *)

\* photo n faces as its new blend says and its tilt took one smoothing step
\* toward goal in this frame
PhotoTurned(n, goal) ==
    /\ photos'[n].facing = IF 10 * photos'[n].mix > 8 * Unit THEN "outward" ELSE "billboard"
    /\ photos'[n].tilt = Smooth(photos[n].tilt, goal, 2, delta')
    /\ Between(photos'[n].tilt, photos[n].tilt, goal)

\* the tilt of every photo lies between 0 and its chaosTilt
TiltBounded ==
    \A n \in DOMAIN photos : Between(photos[n].tilt, 0, data["PHOTO"][n].chaosTilt)

-----------------------------------------------------------------------------
(* The mix target *)

\* C13: the mix target starts at 1 and is always exactly 0 or 1; a press of the
\* toggle button takes 1 to 0 and 0 to 1, and a gesture event with isDetected
\* sets it to 0 for an open hand and to 1 for a closed one.
BinaryMixTarget ==
    /\ targetMix = Unit
    /\ [](targetMix \in {0, Unit})
    /\ [][/\ ToggleState => targetMix' = Unit - targetMix
           /\ \A g \in Gestures :
                 (HandleGesture(g) /\ g.isDetected) =>
                     targetMix' = (IF g.isOpen THEN 0 ELSE Unit)]_vars

\* no hand has been detected yet and the pointer input was never written: the
\* toggle button alone has taken the mix target from 1 to 0
BinaryMixTargetWitness ==
    /\ targetMix = 0
    /\ ~gestureDetected
    /\ inputRef = [x |-> 0, y |-> 0]
    /\ frame = 0

-----------------------------------------------------------------------------
(* The mouse as pointer *)

\* C14: a mouse move at window fractions (fx, fy) sets the pointer input to
\* (2 fx - 1, 1 - 2 fy) when the mouse mode is on and the last gesture event
\* reported no hand, and leaves it as it is in every other state; while a hand
\* is detected the pointer input changes only in a gesture event that reports
\* a hand.
MouseGating ==
    [][/\ \A m \in MouseFractions :
             HandleMouseMove(m[1], m[2]) =>
                IF debugMode /\ ~gestureDetected
                THEN inputRef' = [x |-> 2 * m[1] - Unit, y |-> Unit - 2 * m[2]]
                ELSE inputRef' = inputRef
       /\ (gestureDetected /\ inputRef' # inputRef) =>
             \E g \in Gestures : g.isDetected /\ HandleGesture(g)]_vars

\* the mouse mode is on, no hand is detected and the mouse, at the bottom left
\* corner of the window, has written the pointer input (-1, -1)
MouseGatingWitness ==
    /\ debugMode
    /\ ~gestureDetected
    /\ inputRef = [x |-> -Unit, y |-> -Unit]

-----------------------------------------------------------------------------
(* Range of the smoothed input and of the camera *)

\* v lies in [-bound, bound], bound given in tenths
Within(v, tenths) == 10 * Abs(v) <= tenths * Unit

\* C15: the pointer inputs written have x in [-1.2, 1.2] and y in [-1, 1], and
\* after any frames of any delta the smoothed input lies in the same box, the
\* camera target has x in [-4.8, 4.8], y in [-2, 2] and z in [32, 34.4], and
\* the z coordinate of the camera is at least 32.
BoundedInputAndCamera ==
    LET goal == CameraTarget(controller.currentInput)
    IN /\ Within(inputRef.x, 12) /\ Within(inputRef.y, 10)
       /\ Within(controller.currentInput.x, 12)
       /\ Within(controller.currentInput.y, 10)
       /\ Within(goal[1], 48)
       /\ Within(goal[2], 20)
       /\ 32 * Unit <= goal[3] /\ 10 * goal[3] <= 344 * Unit
       /\ camera[3] >= 32 * Unit

\* the hand is held at the right edge: the smoothed input has passed x = 1.1,
\* the camera target is beyond x = 4.4 and the camera has moved back past z = 34
BoundedInputAndCameraWitness ==
    /\ inputRef.x = (12 * Unit) \div 10
    /\ 10 * controller.currentInput.x > 11 * Unit
    /\ 10 * CameraTarget(controller.currentInput)[1] > 44 * Unit
    /\ camera[3] > 34 * Unit

====
